---- MODULE Spec2Model ----
(***************************************************************************)
(* SemanticDataModule and the EnableTestData context manager of            *)
(* src/data/data_modules/semantic_module.py as a state machine.            *)
(*                                                                         *)
(* One SemanticDataModule instance is modelled.  Its attributes are the    *)
(* variables named as in the source.  The caller's experiment             *)
(* configuration, the statistics file, the organ vocabulary and the        *)
(* number of pixels per split are the environment, fixed in Init.          *)
(* Every method is one action; each action records the value returned     *)
(* to the caller (result) and the exception that reached the caller (exc). *)
(***************************************************************************)
EXTENDS Integers, Sequences, FiniteSets, TLC

VARIABLES
    organ_labels,     \* settings.organ_labels
    stats_file,       \* the data_stats.json artifact read by load_data_stats
    n_pixels,         \* len() of every SemanticDataset of the store
    exp_config,       \* the caller's DictConfig, aliased by self.exp_config
    dm,               \* "absent" | "live" | "failed": the instance's existence
    shuffle,          \* self.shuffle
    num_workers,      \* self.num_workers
    batch_size,       \* self.batch_size
    train_dataset,    \* self.train_dataset
    val_dataset,      \* self.val_dataset
    test_dataset,     \* self.test_dataset
    target,           \* self.target
    data_stats,       \* self.data_stats
    organs,           \* self.organs
    test_dataloader,  \* what the name test_dataloader resolves to on the instance
    gates,            \* number of with EnableTestData(dm) blocks entered and not left
    setup_calls,      \* number of completed setup calls
    last_op,          \* the operation that ran last
    result,           \* the value it returned
    exc,              \* the exception that reached the caller ("none" if none)
    sampler,          \* the index order drawn by the last iteration
    batches           \* the batches the last iteration yielded

vars == <<organ_labels, stats_file, n_pixels, exp_config, dm, shuffle,
          num_workers, batch_size, train_dataset, val_dataset, test_dataset,
          target, data_stats, organs, test_dataloader, gates, setup_calls,
          last_op, result, exc, sampler, batches>>

env_vars == <<organ_labels, stats_file, n_pixels>>

\* the instance attributes written by __init__ and never again by a method
init_fields == <<shuffle, num_workers, batch_size, target, data_stats, organs>>

(***************************************************************************)
(* Bounds of the model.                                                    *)
(***************************************************************************)
MaxN == 3          \* pixels per split: 1..MaxN
MaxBatch == 3      \* configured batch size: 1..MaxBatch
MaxNest == 2       \* with-blocks open at once
MaxSetup == 2      \* completed setup calls

(***************************************************************************)
(* Values.                                                                 *)
(***************************************************************************)
None == [cls |-> "NoneType"]

dimensions == 100

ignore_classes == <<"gallbladder">>

Targets == {"sampled", "real"}

Range(s) == {s[i] : i \in 1..Len(s)}

\* f'{split}_synthetic_{target}'
SyntheticDir(split, tgt) ==
    CASE split = "train" /\ tgt = "sampled" -> "train_synthetic_sampled"
      [] split = "train" /\ tgt = "real"    -> "train_synthetic_real"
      [] split = "val"   /\ tgt = "sampled" -> "val_synthetic_sampled"
      [] split = "val"   /\ tgt = "real"    -> "val_synthetic_real"
      [] split = "test"  /\ tgt = "sampled" -> "test_synthetic_sampled"
      [] split = "test"  /\ tgt = "real"    -> "test_synthetic_real"

StatKeys == {"train_synthetic_sampled", "train_synthetic_real", "train"}

FullStats ==
    ("train_synthetic_sampled" :> [mean |-> 11, std |-> 12]) @@
    ("train_synthetic_real"    :> [mean |-> 21, std |-> 22]) @@
    ("train"                   :> [mean |-> 31, std |-> 32])

StatsFiles ==
    {[state |-> "missing"], [state |-> "malformed"]} \cup
    {[state |-> "ok", content |-> [k \in K |-> FullStats[k]]] : K \in SUBSET StatKeys}

Vocabularies ==
    {<<"liver", "gallbladder", "spleen">>, <<"gallbladder", "colon">>}

Configs ==
    [shuffle : BOOLEAN, num_workers : {0, 2}, batch_size : 1..MaxBatch,
     data : {<<>>}]

\* SemanticDataset(synthetic_dir, real_dir, exp_config=..., ignore_classes=...)
SemanticDataset(synthetic_dir, real_dir, cfg, ignore) ==
    [cls |-> "SemanticDataset", synthetic |-> synthetic_dir, real |-> real_dir,
     exp_config |-> cfg, ignore_classes |-> ignore]

\* DataLoader(dataset, batch_size=, shuffle=, num_workers=, pin_memory=,
\*            drop_last=, collate_fn=)
DataLoader(dataset, bs, sh, nw, pin, drop, collate) ==
    [cls |-> "DataLoader", dataset |-> dataset, batch_size |-> bs,
     shuffle |-> sh, num_workers |-> nw, pin_memory |-> pin,
     drop_last |-> drop, collate_fn |-> collate]

(***************************************************************************)
(* Construction.                                                           *)
(***************************************************************************)
\* exp_config.data.<key> = value
SetData(cfg, key, value) == [cfg EXCEPT !.data = (key :> value) @@ cfg.data]

\* json.load of the statistics file: the mapping, or the exception of open/json.load
load_data_stats(file) ==
    CASE file.state = "missing"   -> [exc |-> "FileNotFoundError", content |-> <<>>]
      [] file.state = "malformed" -> [exc |-> "JSONDecodeError", content |-> <<>>]
      [] OTHER                    -> [exc |-> "none", content |-> file.content]

\* [o for o in settings.organ_labels if o not in self.ignore_classes]
FilterOrgans(labels) == SelectSeq(labels, LAMBDA o : o \notin Range(ignore_classes))

\* adjust_experiment_config with the two sources' means exchanged.
adjust_experiment_config_swapped(cfg, stats, tgt, orgs) ==
    LET syn == SyntheticDir("train", tgt)
        c1  == SetData(cfg, "dimensions", dimensions)
    IN  IF syn \notin DOMAIN stats \/ "train" \notin DOMAIN stats
        THEN [exc |-> "AttributeError", cfg |-> c1]
        ELSE LET c2 == SetData(c1, "mean_a", stats["train"].mean)
                 c3 == SetData(c2, "mean_b", stats[syn].mean)
                 c4 == SetData(c3, "std_a", stats[syn].std)
                 c5 == SetData(c4, "std_b", stats["train"].std)
                 c6 == SetData(c5, "n_classes", Len(orgs))
             IN  [exc |-> "none", cfg |-> c6]

\* The assignments of adjust_experiment_config in order; a .get() of a key the
\* statistics lack returns None, and the .get('mean') on it raises
\* AttributeError with the earlier writes already made.
adjust_experiment_config(cfg, stats, tgt, orgs) ==
    LET syn == SyntheticDir("train", tgt)
        c1  == SetData(cfg, "dimensions", dimensions)
    IN  IF syn \notin DOMAIN stats
        THEN [exc |-> "AttributeError", cfg |-> c1]
        ELSE LET c2 == SetData(c1, "mean_a", stats[syn].mean)
             IN  IF "train" \notin DOMAIN stats
                 THEN [exc |-> "AttributeError", cfg |-> c2]
                 ELSE LET c3 == SetData(c2, "mean_b", stats["train"].mean)
                          c4 == SetData(c3, "std_a", stats[syn].std)
                          c5 == SetData(c4, "std_b", stats["train"].std)
                          c6 == SetData(c5, "n_classes", Len(orgs))
                      IN  [exc |-> "none", cfg |-> c6]

Init ==
    /\ organ_labels \in Vocabularies
    /\ stats_file \in StatsFiles
    /\ n_pixels \in 1..MaxN
    /\ exp_config \in Configs
    /\ dm = "absent"
    /\ shuffle = FALSE
    /\ num_workers = 0
    /\ batch_size = 1
    /\ train_dataset = None
    /\ val_dataset = None
    /\ test_dataset = None
    /\ target = "sampled"
    /\ data_stats = <<>>
    /\ organs = <<>>
    /\ test_dataloader = "method"
    /\ gates = 0
    /\ setup_calls = 0
    /\ last_op = "none"
    /\ result = None
    /\ exc = "none"
    /\ sampler = <<>>
    /\ batches = <<>>

\* SemanticDataModule(experiment_config, target): the assignments of __init__
\* in order.  An exception of load_data_stats or adjust_experiment_config
\* leaves __init__ before the later assignments, and no instance is returned.
Construct ==
    /\ dm = "absent"
    /\ \E tgt \in Targets :
         LET loaded == load_data_stats(stats_file)
             orgs   == FilterOrgans(organ_labels)
             adj    == adjust_experiment_config(exp_config, loaded.content, tgt, orgs)
         IN  /\ shuffle' = exp_config.shuffle
             /\ num_workers' = exp_config.num_workers
             /\ batch_size' = exp_config.batch_size
             /\ target' = tgt
             /\ IF loaded.exc # "none"
                THEN /\ dm' = "failed"
                     /\ exc' = loaded.exc
                     /\ result' = None
                     /\ UNCHANGED <<exp_config, data_stats, organs>>
                ELSE /\ data_stats' = loaded.content
                     /\ organs' = orgs
                     /\ exp_config' = adj.cfg
                     /\ exc' = adj.exc
                     /\ dm' = IF adj.exc = "none" THEN "live" ELSE "failed"
                     /\ result' = IF adj.exc = "none"
                                  THEN [cls |-> "SemanticDataModule"]
                                  ELSE None
    /\ last_op' = "construct"
    /\ UNCHANGED <<env_vars, train_dataset, val_dataset, test_dataset,
                   test_dataloader, gates, setup_calls, sampler, batches>>

(***************************************************************************)
(* setup.                                                                  *)
(***************************************************************************)
\* The dataset setup binds for a split: the synthetic directory of the
\* module's target paired with the real directory of the split.
SplitDataset(split) ==
    SemanticDataset(SyntheticDir(split, target), split, exp_config, ignore_classes)

\* setup that also drops the test dataset.
setup_resets_test ==
    /\ dm = "live"
    /\ setup_calls < MaxSetup
    /\ \E stage \in {"fit", "test"}, failure \in {"none", "train", "val"} :
         /\ train_dataset' = IF failure = "train" THEN train_dataset
                             ELSE SplitDataset("train")
         /\ val_dataset' = IF failure = "none" THEN SplitDataset("val")
                           ELSE val_dataset
         /\ exc' = IF failure = "none" THEN "none" ELSE "DataIntegrityError"
         /\ setup_calls' = IF failure = "none" THEN setup_calls + 1 ELSE setup_calls
    /\ test_dataset' = None
    /\ last_op' = "setup"
    /\ result' = None
    /\ sampler' = <<>>
    /\ batches' = <<>>
    /\ UNCHANGED <<env_vars, exp_config, dm, init_fields, test_dataloader, gates>>

\* setup(stage): the stage is not read.  Either SemanticDataset constructor
\* may raise; the assignment before it has then been made, the one after not.
setup ==
    /\ dm = "live"
    /\ setup_calls < MaxSetup
    /\ \E stage \in {"fit", "test"}, failure \in {"none", "train", "val"} :
         /\ train_dataset' = IF failure = "train" THEN train_dataset
                             ELSE SplitDataset("train")
         /\ val_dataset' = IF failure = "none" THEN SplitDataset("val")
                           ELSE val_dataset
         /\ exc' = IF failure = "none" THEN "none" ELSE "DataIntegrityError"
         /\ setup_calls' = IF failure = "none" THEN setup_calls + 1 ELSE setup_calls
    /\ last_op' = "setup"
    /\ result' = None
    /\ sampler' = <<>>
    /\ batches' = <<>>
    /\ UNCHANGED <<env_vars, exp_config, dm, init_fields, test_dataset,
                   test_dataloader, gates>>

(***************************************************************************)
(* The loaders.                                                            *)
(***************************************************************************)
\* train_dataloader without drop_last.
train_dataloader_keep_last ==
    DataLoader(train_dataset, batch_size, exp_config.shuffle,
               exp_config.num_workers, TRUE, FALSE, "collate_hsi")

\* The DataLoader train_dataloader builds.
train_dataloader ==
    DataLoader(train_dataset, batch_size, exp_config.shuffle,
               exp_config.num_workers, TRUE, TRUE, "collate_hsi")

\* The DataLoader val_dataloader builds.
val_dataloader ==
    DataLoader(val_dataset, 1, exp_config.shuffle, num_workers, TRUE, TRUE,
               "collate_hsi")

\* The closure's loader without drop_last.
test_data_loader_keep_last ==
    DataLoader(test_dataset, batch_size, shuffle, num_workers, TRUE, FALSE,
               "collate_hsi")

\* The DataLoader the closure bound by EnableTestData.__enter__ builds.
test_data_loader ==
    DataLoader(test_dataset, batch_size, shuffle, num_workers, TRUE, TRUE,
               "collate_hsi")

\* What the DataLoader constructor does with the arguments: over a dataset it
\* returns the loader.  Over None it returns the loader when shuffle is off
\* (a sequential sampler never reads the dataset at construction); with
\* shuffle on, the random sampler may evaluate len(None) and raise TypeError,
\* depending on the library version.
LoaderOutcomes(dl) ==
    IF dl.dataset = None /\ dl.shuffle
    THEN {[result |-> dl, exc |-> "none"], [result |-> None, exc |-> "TypeError"]}
    ELSE {[result |-> dl, exc |-> "none"]}

Returns(op, outcomes) ==
    /\ \E o \in outcomes : result' = o.result /\ exc' = o.exc
    /\ last_op' = op
    /\ sampler' = <<>>
    /\ batches' = <<>>

module_state == <<exp_config, dm, init_fields, train_dataset, val_dataset,
                  test_dataset, test_dataloader, gates, setup_calls>>

\* dm.train_dataloader()
CallTrainDataloader ==
    /\ dm = "live"
    /\ Returns("train_dataloader", LoaderOutcomes(train_dataloader))
    /\ UNCHANGED <<env_vars, module_state>>

\* dm.val_dataloader()
CallValDataloader ==
    /\ dm = "live"
    /\ Returns("val_dataloader", LoaderOutcomes(val_dataloader))
    /\ UNCHANGED <<env_vars, module_state>>

\* dm.test_dataloader(): the class's method while the instance has no
\* attribute of that name, else the instance attribute: the closure, or None,
\* and calling None raises TypeError.
CallTestDataloader ==
    /\ dm = "live"
    /\ Returns("test_dataloader",
               CASE test_dataloader = "method" ->
                      {[result |-> None, exc |-> "NotImplementedError"]}
                 [] test_dataloader = "closure" -> LoaderOutcomes(test_data_loader)
                 [] test_dataloader = "None" ->
                      {[result |-> None, exc |-> "TypeError"]})
    /\ UNCHANGED <<env_vars, module_state>>

(***************************************************************************)
(* EnableTestData.                                                         *)
(***************************************************************************)
\* __enter__ that unbinds the loader when the dataset cannot be built.
EnableTestData_enter_unbinds ==
    /\ dm = "live"
    /\ gates < MaxNest
    /\ \E failure \in BOOLEAN :
         IF failure
         THEN /\ exc' = "DataIntegrityError"
              /\ result' = None
              /\ test_dataloader' = "None"
              /\ UNCHANGED <<test_dataset, gates>>
         ELSE /\ test_dataset' = SplitDataset("test")
              /\ test_dataloader' = "closure"
              /\ gates' = gates + 1
              /\ result' = [cls |-> "SemanticDataModule"]
              /\ exc' = "none"
    /\ last_op' = "enter"
    /\ sampler' = <<>>
    /\ batches' = <<>>
    /\ UNCHANGED <<env_vars, exp_config, dm, init_fields, train_dataset,
                   val_dataset, setup_calls>>

\* with EnableTestData(dm): __enter__.  The SemanticDataset constructor may
\* raise, before anything is assigned; __exit__ is then not run.
EnableTestData_enter ==
    /\ dm = "live"
    /\ gates < MaxNest
    /\ \E failure \in BOOLEAN :
         IF failure
         THEN /\ exc' = "DataIntegrityError"
              /\ result' = None
              /\ UNCHANGED <<test_dataset, test_dataloader, gates>>
         ELSE /\ test_dataset' = SplitDataset("test")
              /\ test_dataloader' = "closure"
              /\ gates' = gates + 1
              /\ result' = [cls |-> "SemanticDataModule"]
              /\ exc' = "none"
    /\ last_op' = "enter"
    /\ sampler' = <<>>
    /\ batches' = <<>>
    /\ UNCHANGED <<env_vars, exp_config, dm, init_fields, train_dataset,
                   val_dataset, setup_calls>>

\* __exit__ that unbinds the loader only when the block ended normally.
EnableTestData_exit_normal_only ==
    /\ dm = "live"
    /\ gates > 0
    /\ \E raised \in BOOLEAN :
         /\ last_op' = IF raised THEN "exit_raised" ELSE "exit_normal"
         /\ exc' = IF raised THEN "BlockError" ELSE "none"
         /\ test_dataloader' = IF raised THEN test_dataloader ELSE "None"
    /\ gates' = gates - 1
    /\ result' = None
    /\ sampler' = <<>>
    /\ batches' = <<>>
    /\ UNCHANGED <<env_vars, exp_config, dm, init_fields, train_dataset,
                   val_dataset, test_dataset, setup_calls>>

\* The end of a with block: __exit__(exc_type, exc_val, exc_tb), called
\* whether the block ended normally or raised.  It returns None, which is
\* false, so an exception of the block is re-raised to the caller.
EnableTestData_exit ==
    /\ dm = "live"
    /\ gates > 0
    /\ \E raised \in BOOLEAN :
         /\ last_op' = IF raised THEN "exit_raised" ELSE "exit_normal"
         /\ exc' = IF raised THEN "BlockError" ELSE "none"
    /\ test_dataloader' = "None"
    /\ gates' = gates - 1
    /\ result' = None
    /\ sampler' = <<>>
    /\ batches' = <<>>
    /\ UNCHANGED <<env_vars, exp_config, dm, init_fields, train_dataset,
                   val_dataset, test_dataset, setup_calls>>

(***************************************************************************)
(* Iterating a loader.                                                     *)
(***************************************************************************)
\* The index order of one epoch: the stored order, or with shuffle any
\* permutation of it.
Orders(n, sh) ==
    IF sh
    THEN {p \in [1..n -> 1..n] : \A i, j \in 1..n : p[i] = p[j] => i = j}
    ELSE {[i \in 1..n |-> i]}

\* Batches of batch_size consecutive indices of the order; a shorter last
\* batch is yielded only without drop_last.
RECURSIVE BatchSampler(_, _, _)
BatchSampler(order, bs, drop) ==
    IF Len(order) >= bs
    THEN <<SubSeq(order, 1, bs)>> \o BatchSampler(SubSeq(order, bs + 1, Len(order)), bs, drop)
    ELSE IF Len(order) > 0 /\ ~drop
    THEN <<order>>
    ELSE <<>>

\* for batch in loader: one full epoch over the loader returned last.
Iterate ==
    /\ result.cls = "DataLoader"
    /\ IF result.dataset = None
       THEN /\ exc' = "TypeError"
            /\ sampler' = <<>>
            /\ batches' = <<>>
       ELSE /\ \E order \in Orders(n_pixels, result.shuffle) :
                 /\ sampler' = order
                 /\ batches' = BatchSampler(order, result.batch_size, result.drop_last)
            /\ exc' = "none"
    /\ last_op' = "iterate"
    /\ UNCHANGED <<env_vars, module_state, result>>

Next ==
    \/ Construct
    \/ setup
    \/ CallTrainDataloader
    \/ CallValDataloader
    \/ CallTestDataloader
    \/ EnableTestData_enter
    \/ EnableTestData_exit
    \/ Iterate

Spec == Init /\ [][Next]_vars

(***************************************************************************)
(* The properties.                                                         *)
(***************************************************************************)
TestLoaderCalled == dm = "live" /\ last_op = "test_dataloader"

IsLoader(r) == r.cls = "DataLoader"

\* C1: test_dataloader() called while no gate is active, before the first
\* activation and after a gate has exited, fails with NotImplementedError (the
\* code's not-supported error), and called while a gate is active it returns
\* a loader over the test split.
C1_TestLoaderFollowsGate ==
    TestLoaderCalled =>
        IF gates = 0
        THEN exc = "NotImplementedError"
        ELSE /\ exc = "none"
             /\ IsLoader(result)
             /\ result.dataset = SplitDataset("test")

\* C2: after a with block, ended normally or by an exception, the loader
\* factory is unbound, so that test_dataloader() fails, and an exception of
\* the block reaches the caller.
C2_ExitUnbindsAndPropagates ==
    /\ last_op \in {"exit_normal", "exit_raised"} => test_dataloader = "None"
    /\ last_op = "exit_raised" => exc = "BlockError"
    /\ last_op = "exit_normal" => exc = "none"
    /\ (TestLoaderCalled /\ test_dataloader = "None") =>
           (exc # "none" /\ result = None)

C2_Witness ==
    /\ last_op = "exit_raised"
    /\ exc = "BlockError"
    /\ test_dataloader = "None"
    /\ gates = 0

\* C3: at most one gate is active on the module: a second activation fails,
\* and while a gate is active the test dataset and the loader factory of
\* that gate stay bound.
C3_SingleGate ==
    /\ gates <= 1
    /\ gates >= 1 =>
           (test_dataloader = "closure" /\ test_dataset = SplitDataset("test"))

\* C4: the module holds a test dataset only while a gate is active:
\* test_dataset is None in every state with no active gate.
C4_TestDatasetOnlyInGate == gates = 0 => test_dataset = None

\* C5: train_dataloader() and val_dataloader() called before setup fail with
\* PreconditionError; after setup both return a loader.
C5_LoadersNeedSetup ==
    (dm = "live" /\ last_op \in {"train_dataloader", "val_dataloader"}) =>
        IF setup_calls = 0
        THEN exc = "PreconditionError" /\ result = None
        ELSE exc = "none" /\ IsLoader(result)

\* C6 as stated: the loader test_dataloader() returns is val_dataloader's
\* loader but for its dataset, the test split.
C6_TestLoaderLikeVal ==
    (TestLoaderCalled /\ exc = "none") =>
        result = [val_dataloader EXCEPT !.dataset = SplitDataset("test")]

\* C6 amended: the loader test_dataloader() returns is val_dataloader's
\* loader (same worker count, pinned memory, drop of a trailing partial
\* batch, same collator) but for three arguments: its dataset is the test
\* split, its batch size the configured batch size, and its shuffle flag the
\* one the module stored at construction.
C6_TestLoaderConfig ==
    (TestLoaderCalled /\ exc = "none") =>
        /\ result = [val_dataloader EXCEPT !.dataset = SplitDataset("test"),
                                           !.batch_size = batch_size,
                                           !.shuffle = shuffle]
        /\ result.drop_last
        /\ result.batch_size = exp_config.batch_size

C6_Witness ==
    /\ TestLoaderCalled
    /\ exc = "none"
    /\ IsLoader(result)
    /\ result.batch_size > 1
    /\ val_dataset # None

RECURSIVE Flatten(_)
Flatten(bs) == IF bs = <<>> THEN <<>> ELSE Head(bs) \o Flatten(Tail(bs))

Iterated(split) ==
    /\ last_op = "iterate"
    /\ exc = "none"
    /\ result.dataset = SplitDataset(split)

\* C7: over a dataset of N samples with configured batch size B, an epoch of
\* train_dataloader's loader yields N div B batches of B samples each, the
\* first (N div B) * B indices of the (shuffled) order, and an epoch of
\* val_dataloader's loader yields N batches of one sample each.
C7_PartialBatchDrop ==
    /\ Iterated("train") =>
           /\ Len(batches) = n_pixels \div exp_config.batch_size
           /\ \A i \in 1..Len(batches) : Len(batches[i]) = exp_config.batch_size
           /\ Flatten(batches) =
                  SubSeq(sampler, 1,
                         (n_pixels \div exp_config.batch_size) * exp_config.batch_size)
    /\ Iterated("val") =>
           /\ Len(batches) = n_pixels
           /\ \A i \in 1..Len(batches) : Len(batches[i]) = 1
           /\ Flatten(batches) = sampler

C7_Witness ==
    /\ Iterated("train")
    /\ n_pixels % exp_config.batch_size # 0
    /\ Len(batches) = 1
    /\ result.shuffle
    /\ sampler[1] # 1

ConfigurationError == {"FileNotFoundError", "JSONDecodeError", "AttributeError"}

StatsPresent(tgt) ==
    /\ stats_file.state = "ok"
    /\ {SyntheticDir("train", tgt), "train"} \subseteq DOMAIN stats_file.content

\* C8: construction for a target writes data.dimensions = 100, data.mean_a
\* and data.std_a from the statistics under train_synthetic_<target>,
\* data.mean_b and data.std_b from those under train, and data.n_classes =
\* the number of organ names outside the ignore list; when the statistics
\* for either key are missing, construction raises (the code's configuration
\* errors) and produces no module.
C8_ConfigEnriched ==
    dm # "absent" =>
        IF StatsPresent(target)
        THEN /\ dm = "live"
             /\ last_op = "construct" => exc = "none"
             /\ DOMAIN exp_config.data =
                    {"dimensions", "mean_a", "mean_b", "std_a", "std_b", "n_classes"}
             /\ exp_config.data["dimensions"] = 100
             /\ exp_config.data["mean_a"] =
                    stats_file.content[SyntheticDir("train", target)].mean
             /\ exp_config.data["std_a"] =
                    stats_file.content[SyntheticDir("train", target)].std
             /\ exp_config.data["mean_b"] = stats_file.content["train"].mean
             /\ exp_config.data["std_b"] = stats_file.content["train"].std
             /\ exp_config.data["n_classes"] =
                    Cardinality({i \in 1..Len(organ_labels) :
                                     organ_labels[i] # "gallbladder"})
        ELSE /\ dm = "failed"
             /\ exc \in ConfigurationError
             /\ result = None

C8_Witness ==
    /\ dm = "live"
    /\ last_op = "construct"
    /\ target = "real"
    /\ exp_config.data["mean_a"] = 21
    /\ exp_config.data["n_classes"] = 2

\* C9: a completed setup binds the train and validation datasets to the
\* synthetic/real pair of the module's target with the module's config and
\* ignore list and changes nothing else of the module; a completed setup after
\* a completed setup leaves the whole module as it was.
C9_SetupIdempotent ==
    [][(last_op' = "setup" /\ exc' = "none") =>
          /\ train_dataset' =
                 SemanticDataset(SyntheticDir("train", target), "train",
                                 exp_config, <<"gallbladder">>)
          /\ val_dataset' =
                 SemanticDataset(SyntheticDir("val", target), "val",
                                 exp_config, <<"gallbladder">>)
          /\ UNCHANGED <<test_dataset, test_dataloader, gates, exp_config, dm,
                         init_fields>>
          /\ setup_calls > 0 => UNCHANGED <<train_dataset, val_dataset>>]_vars

C9_Witness ==
    /\ last_op = "setup"
    /\ exc = "none"
    /\ setup_calls = 2
    /\ test_dataset # None
    /\ test_dataloader = "closure"

\* C10: an activation whose test dataset cannot be built raises to the
\* caller and leaves the test dataset, the loader binding, the train and
\* validation datasets and the rest of the module as they were, and an
\* activation can be tried again.
C10_FailedEnterLeavesModule ==
    /\ [][(last_op' = "enter" /\ exc' # "none") =>
             /\ exc' = "DataIntegrityError"
             /\ UNCHANGED module_state]_vars
    /\ []((last_op = "enter" /\ exc # "none") =>
             ENABLED (EnableTestData_enter /\ exc' = "none"))

C10_Witness ==
    /\ last_op = "enter"
    /\ exc = "DataIntegrityError"
    /\ gates = 0
    /\ test_dataloader = "method"
    /\ train_dataset # None
====
